---- MODULE Spec2Model ----
(***************************************************************************)
(* Model of deploy_viewers.py: one run of main() against a cluster.        *)
(*                                                                         *)
(* Strings that the program builds or takes apart (object names, labels,   *)
(* ConfigMap keys, environment values) are sequences of one-character      *)
(* strings, so that concatenation, str.replace and str.endswith are        *)
(* computed the way Python computes them.  Strings that are only compared  *)
(* (dictionary keys, kinds, container names) are TLA+ strings.             *)
(*                                                                         *)
(* The Kubernetes client raises ApiException for every HTTP error status;  *)
(* the model's cluster answers each call with a status: 200/201 success,   *)
(* 404 not found, 409 conflict, 500 any other error.                       *)
(***************************************************************************)
EXTENDS Integers, Sequences, FiniteSets, TLC

VARIABLES
    pc,                        \* position of main()
    num_deployments,           \* args.num_deployments
    stream_url,                \* args.stream_url
    replicas_per_deployment,   \* args.replicas_per_deployment
    template_file,             \* the file at args.template_file
    config_map,                \* the cluster's answer for the VPN ConfigMap
    deployments,               \* cluster: Deployment name -> stored object
    services,                  \* cluster: Service name -> stored object
    base_deployment_template,
    base_service_template,
    available_vpns,
    selected_vpns,
    i,                         \* loop variable of line 80
    vpn_config_name,
    new_component_label,
    current_deployment,
    current_service,
    calls,                     \* API calls made so far, with their status
    out,                       \* lines printed so far
    exit_code,                 \* process exit status once pc is "exit" or "done"
    start_deployments,         \* the cluster's Deployments when the run started
    start_services,            \* the cluster's Services when the run started
    assigned                   \* vpn_config_name of each iteration so far

vars == << pc, num_deployments, stream_url, replicas_per_deployment,
           template_file, config_map, deployments, services,
           base_deployment_template, base_service_template,
           available_vpns, selected_vpns, i, vpn_config_name,
           new_component_label, current_deployment, current_service,
           calls, out, exit_code, start_deployments, start_services,
           assigned >>

-----------------------------------------------------------------------------
(* Bounds of the model *)

MaxDeployments == 2
MaxKeys == 2

-----------------------------------------------------------------------------
(* Python values *)

None == [kind |-> "None"]

Running == 0 - 1

Min(a, b) == IF a < b THEN a ELSE b
Max(a, b) == IF a > b THEN a ELSE b

Digits == << <<"0">>, <<"1">>, <<"2">>, <<"3">>, <<"4">>,
             <<"5">>, <<"6">>, <<"7">>, <<"8">>, <<"9">> >>

RECURSIVE StrNat(_)
StrNat(n) == IF n < 10 THEN Digits[n + 1]
             ELSE StrNat(n \div 10) \o Digits[(n % 10) + 1]

\* str(i)
Str(n) == IF n < 0 THEN <<"-">> \o StrNat(0 - n) ELSE StrNat(n)

\* s.endswith(suffix)
EndsWith(s, suffix) ==
    /\ Len(s) >= Len(suffix)
    /\ SubSeq(s, Len(s) - Len(suffix) + 1, Len(s)) = suffix

\* s.startswith(prefix)
StartsWith(s, prefix) ==
    /\ Len(s) >= Len(prefix)
    /\ SubSeq(s, 1, Len(prefix)) = prefix

RECURSIVE Remove(_, _)
\* s.replace(old, ''): every non-overlapping occurrence of old, left to right
Remove(s, old) ==
    IF Len(s) < Len(old) THEN s
    ELSE IF StartsWith(s, old)
         THEN Remove(SubSeq(s, Len(old) + 1, Len(s)), old)
         ELSE <<s[1]>> \o Remove(Tail(s), old)

\* s[:n]
Prefix(s, n) == IF n >= 0 THEN SubSeq(s, 1, Min(n, Len(s)))
                ELSE SubSeq(s, 1, Max(0, Len(s) + n))

\* range(n)
Range(n) == 0 .. (n - 1)

\* d.get(key, default) on a dict modelled as a record
Get(d, key, default) == IF key \in DOMAIN d THEN d[key] ELSE default

\* d[key] = value on a dict modelled as a record
Put(d, key, value) ==
    [k \in DOMAIN d \cup {key} |-> IF k = key THEN value ELSE d[k]]

\* d.setdefault(key, default), the dict afterwards
SetDefault(d, key, default) == IF key \in DOMAIN d THEN d ELSE Put(d, key, default)

-----------------------------------------------------------------------------
(* String literals of the program *)

DotOvpn == <<".", "o", "v", "p", "n">>
DefaultDeploymentName ==
    <<"v","i","e","w","e","r","-","d","e","p","l","o","y","m","e","n","t">>
DefaultServiceName == <<"v","i","e","w","e","r","-","s","e","r","v","i","c","e">>
DefaultComponent == <<"v","i","e","w","e","r">>
Box == <<"b","o","x">>
ViewerBox == "viewer-box"

-----------------------------------------------------------------------------
(* Instance materialization, lines 81-123 and 139-148 *)

\* line 82 with the index left out of the suffix
InstanceSuffix_Const(idx) == <<"-">>

\* instance_suffix = f"-{i}"
InstanceSuffix(idx) == <<"-">> \o Str(idx)

\* lines 88-89 counting the instances from one
NewDeploymentName_OneBased(base, idx) ==
    Get(base.metadata, "name", DefaultDeploymentName) \o <<"-">> \o Str(idx + 1)

\* new_deployment_name, lines 88-89
NewDeploymentName(base, idx) ==
    Get(base.metadata, "name", DefaultDeploymentName) \o InstanceSuffix(idx)

\* new_component_label, lines 91-92
NewComponentLabel(base, idx) ==
    Get(base.spec.selector.matchLabels, "component", DefaultComponent)
        \o InstanceSuffix(idx)

\* new_service_name, lines 141-142
NewServiceName(base, idx) ==
    Get(base.metadata, "name", DefaultServiceName) \o InstanceSuffix(idx)

\* env_map[name] = ev on the insertion-ordered dict env_map, kept as the
\* sequence of its values: an entry of that name is replaced where it stands,
\* a new name goes to the end (m and e are the two operands, evaluated once)
EnvMapSet(env_map, ev) ==
    LET Assign(m, e) ==
           IF \E k \in DOMAIN m : m[k].name = e.name
           THEN [k \in DOMAIN m |-> IF m[k].name = e.name THEN e ELSE m[k]]
           ELSE Append(m, e)
    IN  CHOOSE after \in { Assign(m, e) : m \in {env_map}, e \in {ev} } : TRUE

RECURSIVE EnvMapOf(_)
\* {ev['name']: ev for ev in env_vars}, line 112
EnvMapOf(env_vars) ==
    IF env_vars = <<>> THEN <<>>
    ELSE EnvMapSet(EnvMapOf(SubSeq(env_vars, 1, Len(env_vars) - 1)),
                   env_vars[Len(env_vars)])

\* lines 110-118 with line 112 left out: the list is rebuilt from the three
\* injected variables alone
InjectedEnv_Replace(container, idx, vpn, url) ==
    << [name |-> "BOX_NAME", value |-> Box \o InstanceSuffix(idx)],
       [name |-> "STREAM_URL", value |-> url],
       [name |-> "VPN_CONFIG", value |-> vpn] >>

\* lines 110-118: the env list of the viewer-box container after injection
InjectedEnv(container, idx, vpn, url) ==
    LET env_vars == Get(container, "env", <<>>)
        m0 == EnvMapOf(env_vars)
        m1 == EnvMapSet(m0, [name |-> "BOX_NAME", value |-> Box \o InstanceSuffix(idx)])
        m2 == EnvMapSet(m1, [name |-> "STREAM_URL", value |-> url])
        m3 == EnvMapSet(m2, [name |-> "VPN_CONFIG", value |-> vpn])
    IN  m3

\* the container the loop of lines 108-120 updates: the first one named
\* viewer-box, 0 when there is none
ViewerBoxIndex(containers) ==
    IF \E k \in DOMAIN containers : containers[k].name = ViewerBox
    THEN CHOOSE k \in DOMAIN containers :
            /\ containers[k].name = ViewerBox
            /\ \A j \in DOMAIN containers :
                  containers[j].name = ViewerBox => k <= j
    ELSE 0

\* lines 107-122 with container_updated initialised to True
ContainerUpdated_Always(base) == TRUE

\* container_updated after the loop of lines 107-120
ContainerUpdated(base) ==
    ViewerBoxIndex(base.spec.template.spec.containers) # 0

\* lines 107-120 on the container list
InjectContainers(containers, idx, vpn, url) ==
    LET b == ViewerBoxIndex(containers)
    IN  [k \in DOMAIN containers |->
            IF k = b
            THEN Put(containers[k], "env", InjectedEnv(containers[k], idx, vpn, url))
            ELSE containers[k]]

\* lines 99-100: the selector's matchLabels
SelectorLabels(labels, component, idx) ==
    Put(Put(labels, "component", component), "deployment-instance", Str(idx))

\* lines 103-104: the pod template's labels
PodLabels(labels, component, idx) ==
    Put(Put(labels, "component", component), "deployment-instance", Str(idx))

\* lines 147-148 with line 147 left out: the selector keeps the template's
\* component
ServiceSelector_KeepsBase(selector, component, idx) ==
    Put(selector, "deployment-instance", Str(idx))

\* lines 147-148: the Service's selector
ServiceSelector(selector, component, idx) ==
    Put(Put(selector, "component", component), "deployment-instance", Str(idx))

\* lines 86-120: current_deployment when the create call is made
MaterializeDeployment(base, idx, vpn, url, replicas) ==
    LET name      == NewDeploymentName(base, idx)
        component == NewComponentLabel(base, idx)
        md1       == Put(base.metadata, "name", name)
        metadata  == Put(md1, "labels",
                         Put(Get(md1, "labels", <<>>), "deployment-instance", Str(idx)))
        selector  == Put(base.spec.selector, "matchLabels",
                         SelectorLabels(base.spec.selector.matchLabels,
                                        component, idx))
        tmd       == SetDefault(base.spec.template.metadata, "labels", <<>>)
        tmetadata == Put(tmd, "labels", PodLabels(tmd.labels, component, idx))
        tspec     == Put(base.spec.template.spec, "containers",
                         InjectContainers(base.spec.template.spec.containers,
                                          idx, vpn, url))
        template  == Put(Put(base.spec.template, "metadata", tmetadata),
                         "spec", tspec)
        spec      == Put(Put(Put(base.spec, "replicas", replicas),
                             "selector", selector), "template", template)
    IN  Put(Put(base, "metadata", metadata), "spec", spec)

\* lines 140-148: current_service when the create call is made
MaterializeService(base, idx, component) ==
    LET name     == NewServiceName(base, idx)
        md1      == Put(base.metadata, "name", name)
        metadata == Put(md1, "labels",
                        Put(Get(md1, "labels", <<>>), "deployment-instance", Str(idx)))
        selector == ServiceSelector(base.spec.selector, component, idx)
    IN  Put(Put(base, "metadata", metadata),
            "spec", Put(base.spec, "selector", selector))

-----------------------------------------------------------------------------
(* Inputs: template files, ConfigMaps, arguments *)

Viewer == <<"v","i","e","w","e","r">>
ViewerSvc == <<"v","i","e","w","e","r","-","s","v","c">>
Kick == <<"k","i","c","k">>

\* a complete Deployment: name, labels, component label, a sidecar and the
\* viewer-box container with declared variables, one name declared twice
DeploymentA ==
    [kind |-> "Deployment",
     metadata |-> [name |-> Viewer, labels |-> [app |-> Kick]],
     spec |-> [replicas |-> 1,
               selector |-> [matchLabels |-> [app |-> Kick, component |-> Viewer]],
               template |->
                 [metadata |-> [labels |-> [app |-> Kick, component |-> Viewer]],
                  spec |-> [containers |->
                     << [name |-> "vpn"],
                        [name |-> ViewerBox,
                         env |-> << [name |-> "TZ", value |-> <<"C","E","T">>],
                                    [name |-> "TZ", value |-> <<"U","T","C">>],
                                    [name |-> "VPN_CONFIG", value |-> <<"x">>] >>] >>]]]]

\* a minimal Deployment: no name, no labels, no component label, viewer-box
\* without an env list
DeploymentB ==
    [kind |-> "Deployment",
     metadata |-> <<>>,
     spec |-> [selector |-> [matchLabels |-> [app |-> Kick]],
               template |->
                 [metadata |-> <<>>,
                  spec |-> [containers |-> << [name |-> ViewerBox] >>]]]]

\* a Deployment without the viewer-box container
DeploymentC ==
    [kind |-> "Deployment",
     metadata |-> [name |-> Viewer],
     spec |-> [selector |-> [matchLabels |-> [component |-> Viewer]],
               template |->
                 [metadata |-> [labels |-> [component |-> Viewer]],
                  spec |-> [containers |-> << [name |-> "vpn"] >>]]]]

ServiceA ==
    [kind |-> "Service",
     metadata |-> [name |-> ViewerSvc, labels |-> [app |-> Kick]],
     spec |-> [selector |-> [app |-> Kick, component |-> Viewer]]]

ServiceB ==
    [kind |-> "Service",
     metadata |-> <<>>,
     spec |-> [selector |-> <<>>]]

\* the file at args.template_file: unreadable, or a sequence of documents
\* (None is an empty YAML document)
TemplateFiles ==
    { [readable |-> FALSE, docs |-> <<>>],
      [readable |-> TRUE,  docs |-> << None, ServiceA >>],
      [readable |-> TRUE,  docs |-> << DeploymentA, ServiceA, DeploymentC, ServiceB >>],
      [readable |-> TRUE,  docs |-> << None, DeploymentB >>],
      [readable |-> TRUE,  docs |-> << ServiceB, DeploymentC >>] }

KeyA  == <<"a", ".", "o", "v", "p", "n">>
KeyB  == <<"b", ".", "o", "v", "p", "n">>
KeyAA == <<"a", ".", "o", "v", "p", "n", ".", "o", "v", "p", "n">>
KeyC  == <<"c", ".", "o", "v", "p", "n", ".", "t", "x", "t">>

\* keys a ConfigMap's data may hold
KeyUniverse == {KeyA, KeyB, KeyAA, KeyC}

\* the key lists of a dict: no key twice
KeyLists ==
    UNION { { ks \in [1 .. n -> KeyUniverse] :
                \A a, b \in 1 .. n : a # b => ks[a] # ks[b] } : n \in 0 .. MaxKeys }

\* what read_namespaced_config_map can answer: the ConfigMap with its data
\* keys in order, the ConfigMap with data None, 404, or another error
ConfigMaps ==
    { [status |-> 200, has_data |-> TRUE, keys |-> ks] : ks \in KeyLists }
    \cup { [status |-> 200, has_data |-> FALSE, keys |-> <<>>],
           [status |-> 404, has_data |-> FALSE, keys |-> <<>>],
           [status |-> 500, has_data |-> FALSE, keys |-> <<>>] }

\* the ConfigMaps whose keys are the first keys of one fixed list
PlainConfigMaps ==
    { cm \in ConfigMaps :
         cm.keys = SubSeq(<< KeyB, KeyA, KeyAA, KeyC >>, 1, Len(cm.keys)) }

NumDeploymentsChoices == (0 - 1) .. MaxDeployments
StreamUrls == { <<"k", "/", "s">> }
ReplicasChoices == { 2 }

OldUrl == <<"k", "/", "o">>
OldVpn == <<"o", "l", "d">>

-----------------------------------------------------------------------------
(* Template Store, lines 7-10 and 60-66 *)

\* next((tpl for tpl in templates if tpl and tpl.get("kind") == kind), None)
FirstOfKind(templates, kind) ==
    IF \E k \in DOMAIN templates : templates[k] # None /\ templates[k].kind = kind
    THEN LET k == CHOOSE k \in DOMAIN templates :
                     /\ templates[k] # None /\ templates[k].kind = kind
                     /\ \A j \in DOMAIN templates :
                           (templates[j] # None /\ templates[j].kind = kind) => k <= j
         IN  templates[k]
    ELSE None

-----------------------------------------------------------------------------
(* Identity pool, lines 12-33 and 68-78 *)

RECURSIVE VpnNames(_)
\* line 19
VpnNames(keys) ==
    IF keys = <<>> THEN <<>>
    ELSE LET rest == VpnNames(SubSeq(keys, 1, Len(keys) - 1))
             key  == keys[Len(keys)]
         IN  IF EndsWith(key, DotOvpn)
             THEN Append(rest, Remove(key, DotOvpn))
             ELSE rest

\* get_available_vpn_configs: the list returned, or exit
GetAvailableVpnConfigsResult(cm) ==
    IF cm.status # 200
    THEN [exit |-> TRUE, vpn_names |-> <<>>,
          msg |-> IF cm.status = 404 THEN "configmap_not_found"
                  ELSE "configmap_fetch_error"]
    ELSE IF ~cm.has_data
    THEN [exit |-> TRUE, vpn_names |-> <<>>, msg |-> "configmap_no_data"]
    ELSE [exit |-> FALSE, vpn_names |-> VpnNames(cm.keys),
          msg |-> IF VpnNames(cm.keys) = <<>> THEN "no_ovpn_files" ELSE ""]

\* line 70 with the emptiness test left out
NoVpns_Never(vpns) == FALSE

\* line 70
NoVpns(vpns) == vpns = <<>>

\* line 74 off by one
TooFewVpns_OffByOne(n, vpns) == n > Len(vpns) + 1

\* line 74 also rejecting a count below one
TooFewVpns_RejectsNonPositive(n, vpns) == n > Len(vpns) \/ n <= 0

\* line 74
TooFewVpns(n, vpns) == n > Len(vpns)

-----------------------------------------------------------------------------
(* Reconciliation, lines 125-136 and 150-160 *)

Created == 201
Replaced == 200
Conflict == 409
NotFound == 404
OtherError == 500

\* the cluster's answers to a create of name
CreateStatuses(store, name) ==
    IF name \in DOMAIN store THEN {Conflict, OtherError} ELSE {Created, OtherError}

\* the cluster's answers to a replace of name
ReplaceStatuses(store, name) ==
    IF name \in DOMAIN store THEN {Replaced, OtherError} ELSE {NotFound}

\* the store after a write of body under name answered with status
Stored(store, name, body, status) ==
    IF status \in {Created, Replaced} THEN Put(store, name, body) ELSE store

\* lines 125-136 with the ApiException of a create not caught unless it is a
\* conflict
OnCreateDeployment_Abort(status) ==
    IF status = Created THEN [next |-> "service", msg |-> "deployment_created"]
    ELSE IF status = Conflict THEN [next |-> "replace_deployment", msg |-> ""]
    ELSE [next |-> "exit", msg |-> "traceback"]

\* lines 125-136 with a conflict handled like any other error
OnCreateDeployment_NoReplace(status) ==
    IF status = Created THEN [next |-> "service", msg |-> "deployment_created"]
    ELSE [next |-> "service", msg |-> "deployment_create_error"]

\* lines 125-129 and 135-136: what follows create_namespaced_deployment
OnCreateDeployment(status) ==
    IF status = Created THEN [next |-> "service", msg |-> "deployment_created"]
    ELSE IF status = Conflict THEN [next |-> "replace_deployment", msg |-> ""]
    ELSE [next |-> "service", msg |-> "deployment_create_error"]

\* lines 130-134 with the ApiException of the replace not caught
OnReplaceDeployment_Abort(status) ==
    IF status = Replaced THEN [next |-> "service", msg |-> "deployment_replaced"]
    ELSE [next |-> "exit", msg |-> "traceback"]

\* lines 130-134 with the ApiException of the replace swallowed
OnReplaceDeployment_Silent(status) ==
    IF status = Replaced THEN [next |-> "service", msg |-> "deployment_replaced"]
    ELSE [next |-> "service", msg |-> ""]

\* lines 130-134 trying the replace again after an error
OnReplaceDeployment_Retry(status) ==
    IF status = Replaced THEN [next |-> "service", msg |-> "deployment_replaced"]
    ELSE [next |-> "replace_deployment", msg |-> "deployment_replace_error"]

\* lines 130-134: what follows replace_namespaced_deployment
OnReplaceDeployment(status) ==
    IF status = Replaced THEN [next |-> "service", msg |-> "deployment_replaced"]
    ELSE [next |-> "service", msg |-> "deployment_replace_error"]

\* lines 150-160 with a conflict handled like any other error
OnCreateService_ConflictFails(status) ==
    IF status = Created THEN [next |-> "loop", msg |-> "service_created"]
    ELSE [next |-> "loop", msg |-> "service_create_error"]

\* lines 150-160: what follows create_namespaced_service
OnCreateService(status) ==
    IF status = Created THEN [next |-> "loop", msg |-> "service_created"]
    ELSE IF status = Conflict THEN [next |-> "loop", msg |-> "service_exists"]
    ELSE [next |-> "loop", msg |-> "service_create_error"]

\* print(...)
Printed(lines, msg, name) ==
    IF msg = "" THEN lines ELSE Append(lines, [msg |-> msg, name |-> name])

-----------------------------------------------------------------------------
(* The cluster before the run: objects left by earlier runs of the same       *)
(* template file with another stream URL and another VPN, each with the       *)
(* status the cluster has added to it since.  Earlier objects are combined    *)
(* with the plain ConfigMaps; every ConfigMap is run against the empty        *)
(* cluster.                                                                   *)

Observed(object) == Put(object, "status", "observed")

PriorDeployments(file) ==
    LET base == FirstOfKind(file.docs, "Deployment")
    IN  IF base = None THEN { <<>> }
        ELSE { [n \in { NewDeploymentName(base, j) : j \in S } |->
                  LET j == CHOOSE j \in S : NewDeploymentName(base, j) = n
                  IN  Observed(MaterializeDeployment(base, j, OldVpn, OldUrl, 1))]
               : S \in SUBSET Range(MaxDeployments) }

PriorServices(file) ==
    LET base == FirstOfKind(file.docs, "Deployment")
        svc  == FirstOfKind(file.docs, "Service")
    IN  IF base = None \/ svc = None THEN { <<>> }
        ELSE { [n \in { NewServiceName(svc, j) : j \in S } |->
                  LET j == CHOOSE j \in S : NewServiceName(svc, j) = n
                  IN  Observed(MaterializeService(svc, j, NewComponentLabel(base, j)))]
               : S \in SUBSET Range(MaxDeployments) }

-----------------------------------------------------------------------------
(* main() *)

Init ==
    /\ pc = "load_kube_config"
    /\ num_deployments \in NumDeploymentsChoices
    /\ stream_url \in StreamUrls
    /\ replicas_per_deployment \in ReplicasChoices
    /\ template_file \in TemplateFiles
    /\ config_map \in ConfigMaps
    /\ deployments \in PriorDeployments(template_file)
    /\ services \in PriorServices(template_file)
    /\ config_map \in PlainConfigMaps \/ (deployments = <<>> /\ services = <<>>)
    /\ start_deployments = deployments
    /\ start_services = services
    /\ assigned = <<>>
    /\ base_deployment_template = None
    /\ base_service_template = None
    /\ available_vpns = <<>>
    /\ selected_vpns = <<>>
    /\ i = 0
    /\ vpn_config_name = <<>>
    /\ new_component_label = <<>>
    /\ current_deployment = None
    /\ current_service = None
    /\ calls = <<>>
    /\ out = <<>>
    /\ exit_code = Running

inputs == << num_deployments, stream_url, replicas_per_deployment,
             template_file, config_map, start_deployments, start_services >>
cluster == << deployments, services >>
loaded == << base_deployment_template, base_service_template >>
pool == << available_vpns, selected_vpns >>
locals == << i, vpn_config_name, new_component_label,
             current_deployment, current_service, assigned >>

\* lines 86 and 140 without copy.deepcopy: the loop body writes through the
\* base template itself
BaseAfterWrites_NoCopy(base, written) == written

\* lines 86 and 140: the loop body writes to a deep copy, so the base template
\* after the writes that produced `written` is the object it was
BaseAfterWrites(base, written) == base

\* line 139 with the Service left out
ServiceWanted_Never(template, printed) == FALSE

\* line 139 also asking that the Deployment step did not print an error
ServiceWanted_IfWorkloadOk(template, printed) ==
    /\ template # None
    /\ printed # <<>>
    /\ printed[Len(printed)].msg \in { "deployment_created", "deployment_replaced" }

\* line 139: `if base_service_template:`, whatever the Deployment step printed
ServiceWanted(template, printed) == template # None

\* line 80 stepping by two
NextIndex_Skip(idx) == idx + 2

\* line 80: the index after idx in range(num_deployments)
NextIndex(idx) == idx + 1

\* line 164: what the closing line reports
ProcessedLine(n) == [msg |-> "processed", name |-> <<>>, processed |-> n]

\* sys.exit(1) after printing msg
Exit(msg) ==
    /\ pc' = "exit"
    /\ exit_code' = 1
    /\ out' = Printed(out, msg, <<>>)

\* line 48: config.load_kube_config()
LoadKubeConfig ==
    /\ pc = "load_kube_config"
    /\ \E ok \in BOOLEAN :
          pc' = IF ok THEN "load_template" ELSE "load_incluster_config"
    /\ UNCHANGED << inputs, cluster, loaded, pool, locals, calls, out, exit_code >>

\* lines 49-54: config.load_incluster_config() after a ConfigException
LoadInclusterConfig ==
    /\ pc = "load_incluster_config"
    /\ \E ok \in BOOLEAN :
          IF ok THEN pc' = "load_template" /\ UNCHANGED << out, exit_code >>
          ELSE Exit("no_kubernetes_configuration")
    /\ UNCHANGED << inputs, cluster, loaded, pool, locals, calls >>

\* lines 60-66: load the template file, find the two base templates; an
\* unreadable file is an uncaught exception, which ends the process with 1
LoadTemplate ==
    /\ pc = "load_template"
    /\ IF ~template_file.readable
       THEN /\ Exit("traceback")
            /\ UNCHANGED loaded
       ELSE /\ base_deployment_template' = FirstOfKind(template_file.docs, "Deployment")
            /\ base_service_template' = FirstOfKind(template_file.docs, "Service")
            /\ IF base_deployment_template' = None
               THEN Exit("no_deployment_definition")
               ELSE pc' = "get_available_vpn_configs" /\ UNCHANGED << out, exit_code >>
    /\ UNCHANGED << inputs, cluster, pool, locals, calls >>

\* line 68: get_available_vpn_configs, lines 12-33
GetAvailableVpnConfigs ==
    /\ pc = "get_available_vpn_configs"
    /\ calls' = Append(calls, [op |-> "read_namespaced_config_map",
                               name |-> <<>>, status |-> config_map.status])
    /\ LET r == GetAvailableVpnConfigsResult(config_map)
       IN  IF r.exit
           THEN Exit(r.msg) /\ UNCHANGED available_vpns
           ELSE /\ available_vpns' = r.vpn_names
                /\ out' = Printed(out, r.msg, <<>>)
                /\ pc' = "check_vpns"
                /\ UNCHANGED exit_code
    /\ UNCHANGED << inputs, cluster, loaded, selected_vpns, locals >>

\* lines 70-78
CheckVpns ==
    /\ pc = "check_vpns"
    /\ IF NoVpns(available_vpns)
       THEN Exit("no_vpn_configurations") /\ UNCHANGED selected_vpns
       ELSE IF TooFewVpns(num_deployments, available_vpns)
       THEN Exit("too_few_vpns") /\ UNCHANGED selected_vpns
       ELSE /\ selected_vpns' = Prefix(available_vpns, num_deployments)
            /\ pc' = "loop"
            /\ UNCHANGED << out, exit_code >>
    /\ UNCHANGED << inputs, cluster, loaded, available_vpns, locals, calls >>

\* lines 80-123: the next index of range(num_deployments), its Deployment
Materialize ==
    /\ pc = "loop"
    /\ i \in Range(num_deployments)
    /\ LET vpn == selected_vpns[i + 1]
           deployment ==
              MaterializeDeployment(base_deployment_template, i, vpn,
                                    stream_url, replicas_per_deployment)
       IN  /\ vpn_config_name' = vpn
           /\ current_deployment' = deployment
           /\ base_deployment_template' =
                 BaseAfterWrites(base_deployment_template, deployment)
           /\ assigned' = Append(assigned, vpn)
    /\ new_component_label' = NewComponentLabel(base_deployment_template, i)
    /\ out' = IF ContainerUpdated(base_deployment_template) THEN out
              ELSE Printed(out, "container_not_found",
                           NewDeploymentName(base_deployment_template, i))
    /\ pc' = "create_deployment"
    /\ UNCHANGED << inputs, cluster, base_service_template, pool, i,
                    current_service, calls, exit_code >>

\* lines 125-129, 135-136: create_namespaced_deployment
CreateDeployment ==
    /\ pc = "create_deployment"
    /\ LET name == current_deployment.metadata.name
       IN  \E status \in CreateStatuses(deployments, name) :
              /\ calls' = Append(calls, [op |-> "create_namespaced_deployment",
                                         name |-> name, status |-> status])
              /\ deployments' = Stored(deployments, name, current_deployment, status)
              /\ out' = Printed(out, OnCreateDeployment(status).msg, name)
              /\ pc' = OnCreateDeployment(status).next
    /\ UNCHANGED << inputs, services, loaded, pool, locals, exit_code >>

\* lines 130-134: replace_namespaced_deployment after a conflict
ReplaceDeployment ==
    /\ pc = "replace_deployment"
    /\ LET name == NewDeploymentName(base_deployment_template, i)
       IN  \E status \in ReplaceStatuses(deployments, name) :
              /\ calls' = Append(calls, [op |-> "replace_namespaced_deployment",
                                         name |-> name, status |-> status])
              /\ deployments' = Stored(deployments, name, current_deployment, status)
              /\ out' = Printed(out, OnReplaceDeployment(status).msg, name)
              /\ pc' = OnReplaceDeployment(status).next
    /\ UNCHANGED << inputs, services, loaded, pool, locals, exit_code >>

\* lines 139-162 with a Service template: its Service, create_namespaced_service
CreateService ==
    /\ pc = "service"
    /\ ServiceWanted(base_service_template, out)
    /\ current_service' =
          MaterializeService(base_service_template, i, new_component_label)
    /\ LET name == current_service'.metadata.name
       IN  \E status \in CreateStatuses(services, name) :
              /\ calls' = Append(calls, [op |-> "create_namespaced_service",
                                         name |-> name, status |-> status])
              /\ services' = Stored(services, name, current_service', status)
              /\ out' = Printed(Printed(out, OnCreateService(status).msg, name),
                                "---", <<>>)
              /\ pc' = OnCreateService(status).next
    /\ base_service_template' =
          BaseAfterWrites(base_service_template, current_service')
    /\ i' = NextIndex(i)
    /\ UNCHANGED << inputs, deployments, base_deployment_template, pool,
                    vpn_config_name,
                    new_component_label, current_deployment, assigned,
                    exit_code >>

\* lines 139 and 162 without a Service template
NoService ==
    /\ pc = "service"
    /\ ~ServiceWanted(base_service_template, out)
    /\ out' = Printed(out, "---", <<>>)
    /\ i' = NextIndex(i)
    /\ pc' = "loop"
    /\ UNCHANGED << inputs, cluster, loaded, pool, vpn_config_name,
                    new_component_label, current_deployment, current_service,
                    assigned, calls, exit_code >>

\* line 164, after the loop
Finish ==
    /\ pc = "loop"
    /\ i \notin Range(num_deployments)
    /\ out' = Append(out, ProcessedLine(num_deployments))
    /\ pc' = "done"
    /\ exit_code' = 0
    /\ UNCHANGED << inputs, cluster, loaded, pool, locals, calls >>

Next ==
    \/ LoadKubeConfig
    \/ LoadInclusterConfig
    \/ LoadTemplate
    \/ GetAvailableVpnConfigs
    \/ CheckVpns
    \/ Materialize
    \/ CreateDeployment
    \/ ReplaceDeployment
    \/ CreateService
    \/ NoService
    \/ Finish

Spec == Init /\ [][Next]_vars

\* main() runs on one thread and every call it makes returns or raises: a
\* step that can be taken is taken
FairSpec == Spec /\ WF_vars(Next)

-----------------------------------------------------------------------------
(* Vocabulary of the properties *)

WriteOps == { "create_namespaced_deployment", "replace_namespaced_deployment",
              "create_namespaced_service" }

\* the createWorkload, replaceWorkload and createEndpoint calls made so far
WriteCalls == SelectSeq(calls, LAMBDA c : c.op \in WriteOps)

\* the ConfigMap has been read
PoolQueried == \E k \in DOMAIN calls : calls[k].op = "read_namespaced_config_map"

\* the ConfigMap has been read and yielded a token list
PoolResolved == PoolQueried /\ config_map.status = 200 /\ config_map.has_data

\* the batch loop has been entered
LoopStarted ==
    pc \in { "loop", "create_deployment", "replace_deployment", "service", "done" }

HasService == FirstOfKind(template_file.docs, "Service") # None

\* the names of instance j, written out from the template file
WorkloadName(j) ==
    LET md == FirstOfKind(template_file.docs, "Deployment").metadata
    IN  (IF "name" \in DOMAIN md THEN md.name ELSE DefaultDeploymentName)
            \o <<"-">> \o Str(j)

EndpointName(j) ==
    LET md == FirstOfKind(template_file.docs, "Service").metadata
    IN  (IF "name" \in DOMAIN md THEN md.name ELSE DefaultServiceName)
            \o <<"-">> \o Str(j)

ComponentOf(j) ==
    LET ml == FirstOfKind(template_file.docs, "Deployment").spec.selector.matchLabels
    IN  (IF "component" \in DOMAIN ml THEN ml.component ELSE DefaultComponent)
            \o <<"-">> \o Str(j)

\* the positions of the calls of op for name
CallsOf(op, name) ==
    { k \in DOMAIN calls : calls[k].op = op /\ calls[k].name = name }

\* the outcome category a printed line reports
WorkloadOutcome(msg) ==
    IF msg = "deployment_created" THEN "created"
    ELSE IF msg = "deployment_replaced" THEN "replaced"
    ELSE "failed"

EndpointOutcome(msg) ==
    IF msg = "service_created" THEN "created"
    ELSE IF msg = "service_exists" THEN "skipped"
    ELSE "failed"

WorkloadMsgs == { "deployment_created", "deployment_replaced",
                  "deployment_replace_error", "deployment_create_error" }
EndpointMsgs == { "service_created", "service_exists", "service_create_error" }

\* the positions of the outcome lines printed for an object
WorkloadLines(name) ==
    { k \in DOMAIN out : out[k].msg \in WorkloadMsgs /\ out[k].name = name }
EndpointLines(name) ==
    { k \in DOMAIN out : out[k].msg \in EndpointMsgs /\ out[k].name = name }

\* the outcomes reported for an object
WorkloadOutcomes(name) == { WorkloadOutcome(out[k].msg) : k \in WorkloadLines(name) }
EndpointOutcomes(name) == { EndpointOutcome(out[k].msg) : k \in EndpointLines(name) }

\* the index the current objects were materialized for
CurrentIndex == IF pc \in { "loop", "done" } THEN i - 1 ELSE i

\* the last line printed
LastMsg == IF out = <<>> THEN "" ELSE out[Len(out)].msg

-----------------------------------------------------------------------------
(* C1 *)

\* C1: with a resolved pool of M >= N tokens, instance i is assigned the i-th
\* token of the pool, and the tokens assigned to different instances differ.
C1_PrefixDistinct ==
    (LoopStarted /\ num_deployments <= Len(available_vpns)) =>
        /\ Len(assigned) <= Max(num_deployments, 0)
        /\ \A j \in DOMAIN assigned : assigned[j] = available_vpns[j]
        /\ \A j, k \in DOMAIN assigned : j # k => assigned[j] # assigned[k]
        /\ pc = "done" => Len(assigned) = Max(num_deployments, 0)

-----------------------------------------------------------------------------
(* C2 *)

\* C2: when the resolved pool has fewer tokens than instances are requested,
\* the run exits non-zero reporting the pool failure and has made no
\* createWorkload, replaceWorkload or createEndpoint call.
C2_PoolExhausted ==
    (PoolResolved /\ num_deployments > Len(available_vpns)) =>
        /\ WriteCalls = <<>>
        /\ pc \in { "check_vpns", "exit" }
        /\ pc = "exit" =>
              /\ exit_code # 0
              /\ LastMsg = IF available_vpns = <<>> THEN "no_vpn_configurations"
                           ELSE "too_few_vpns"

C2_Witness ==
    /\ pc = "exit"
    /\ PoolResolved
    /\ Len(available_vpns) = 1
    /\ num_deployments = 2

-----------------------------------------------------------------------------
(* C3 *)

\* C3: a failed create or replace of one instance does not stop the batch:
\* the run never exits once the loop has started, and when it is done every
\* index of [0, N) has had its workload create attempted, and its endpoint
\* create when an endpoint template exists.
C3_FailureIsolated ==
    /\ pc = "exit" => WriteCalls = <<>>
    /\ LoopStarted => exit_code \in { Running, 0 }
    /\ pc = "done" =>
          \A j \in Range(num_deployments) :
             /\ CallsOf("create_namespaced_deployment", WorkloadName(j)) # {}
             /\ HasService =>
                   CallsOf("create_namespaced_service", EndpointName(j)) # {}

C3_Witness ==
    /\ pc = "done"
    /\ num_deployments = 2
    /\ HasService
    /\ \E k \in CallsOf("create_namespaced_deployment", WorkloadName(0)) :
          calls[k].status = OtherError
    /\ \E k \in CallsOf("create_namespaced_service", EndpointName(0)) :
          calls[k].status = OtherError
    /\ \E k \in CallsOf("replace_namespaced_deployment", WorkloadName(1)) :
          calls[k].status = OtherError
    /\ CallsOf("create_namespaced_service", EndpointName(1)) # {}

-----------------------------------------------------------------------------
(* C4 *)

\* every workload and endpoint of [0, N) was in the cluster when the run started
AllPresentAtStart ==
    \A j \in Range(num_deployments) :
       /\ WorkloadName(j) \in DOMAIN start_deployments
       /\ HasService => EndpointName(j) \in DOMAIN start_services

\* the cluster answered every call made so far from its state alone
NoOtherError ==
    \A k \in DOMAIN calls : calls[k].status \notin { OtherError, NotFound }

\* C4: a run against a cluster that already holds the workloads and endpoints
\* of instances 0..N-1, answered by the cluster without other errors, reports
\* replaced for every workload and skipped for every endpoint, never failed.
C4_RerunReplacesAndSkips ==
    (pc = "done" /\ AllPresentAtStart /\ NoOtherError) =>
        \A j \in Range(num_deployments) :
           /\ WorkloadOutcomes(WorkloadName(j)) = { "replaced" }
           /\ HasService => EndpointOutcomes(EndpointName(j)) = { "skipped" }
           /\ ~HasService => EndpointLines(EndpointName(j)) = {}

C4_Witness ==
    /\ pc = "done"
    /\ num_deployments = 2
    /\ HasService
    /\ AllPresentAtStart
    /\ NoOtherError
    /\ deployments[WorkloadName(1)] # start_deployments[WorkloadName(1)]

-----------------------------------------------------------------------------
(* C5 *)

\* C5: for every materialized instance i, the workload's selector labels, its
\* pod-template labels and, when there is an endpoint, the endpoint's selector
\* carry the component base + "-" + i and the instance index i.
C5_LabelsAgree ==
    /\ current_deployment # None =>
          LET sel == current_deployment.spec.selector.matchLabels
              pod == current_deployment.spec.template.metadata.labels
          IN  /\ { "component", "deployment-instance" } \subseteq DOMAIN sel
              /\ { "component", "deployment-instance" } \subseteq DOMAIN pod
              /\ sel.component = ComponentOf(CurrentIndex)
              /\ pod.component = ComponentOf(CurrentIndex)
              /\ sel["deployment-instance"] = Str(CurrentIndex)
              /\ pod["deployment-instance"] = Str(CurrentIndex)
    /\ (current_service # None /\ pc \in { "loop", "done" }) =>
          LET sel == current_service.spec.selector
          IN  /\ { "component", "deployment-instance" } \subseteq DOMAIN sel
              /\ sel.component = ComponentOf(CurrentIndex)
              /\ sel["deployment-instance"] = Str(CurrentIndex)
              /\ sel.component = current_deployment.spec.selector.matchLabels.component
              /\ sel.component =
                    current_deployment.spec.template.metadata.labels.component

C5_Witness ==
    /\ pc = "loop"
    /\ i = 2
    /\ current_service # None
    /\ current_service.spec.selector.component = Viewer \o <<"-", "1">>
    /\ current_deployment.spec.template.metadata.labels.component
          = Viewer \o <<"-", "1">>

-----------------------------------------------------------------------------
(* C6 *)

\* C6: per object, a create that succeeds is reported created; a conflict on a
\* workload create is followed at once by exactly one replace of that
\* workload, reported replaced or failed by its status; a conflict on an
\* endpoint create is followed by no write to that endpoint, which stays as
\* it was, and is reported skipped; any other create error is reported failed
\* with no further call for the object.
C6_ReconcilePolicy ==
    \A k \in DOMAIN calls :
       LET c == calls[k]
       IN  /\ c.op = "create_namespaced_deployment" =>
                /\ CallsOf("create_namespaced_deployment", c.name) = { k }
                /\ c.status = Created =>
                      /\ WorkloadOutcomes(c.name) = { "created" }
                      /\ CallsOf("replace_namespaced_deployment", c.name) = {}
                /\ c.status = Conflict =>
                      IF k = Len(calls)
                      THEN pc = "replace_deployment" /\ WorkloadLines(c.name) = {}
                      ELSE /\ CallsOf("replace_namespaced_deployment", c.name)
                                 = { k + 1 }
                           /\ WorkloadOutcomes(c.name) =
                                 IF calls[k + 1].status = Replaced
                                 THEN { "replaced" } ELSE { "failed" }
                /\ c.status \notin { Created, Conflict } =>
                      /\ WorkloadOutcomes(c.name) = { "failed" }
                      /\ CallsOf("replace_namespaced_deployment", c.name) = {}
           /\ c.op = "replace_namespaced_deployment" =>
                /\ k > 1
                /\ calls[k - 1].op = "create_namespaced_deployment"
                /\ calls[k - 1].name = c.name
                /\ calls[k - 1].status = Conflict
           /\ c.op = "create_namespaced_service" =>
                /\ CallsOf("create_namespaced_service", c.name) = { k }
                /\ c.status = Created =>
                      EndpointOutcomes(c.name) = { "created" }
                /\ c.status = Conflict =>
                      /\ EndpointOutcomes(c.name) = { "skipped" }
                      /\ c.name \in DOMAIN start_services
                      /\ services[c.name] = start_services[c.name]
                /\ c.status \notin { Created, Conflict } =>
                      /\ EndpointOutcomes(c.name) = { "failed" }
                      /\ c.name \in DOMAIN start_services =>
                            services[c.name] = start_services[c.name]
           /\ c.op \in WriteOps \/ c.op = "read_namespaced_config_map"
           /\ Cardinality(WorkloadLines(c.name)) <= 1
           /\ Cardinality(EndpointLines(c.name)) <= 1

C6_Witness ==
    /\ pc = "done"
    /\ num_deployments = 2
    /\ \E k \in CallsOf("create_namespaced_service", EndpointName(0)) :
          calls[k].status = Conflict
    /\ \E k \in CallsOf("replace_namespaced_deployment", WorkloadName(0)) :
          calls[k].status = OtherError
    /\ \E k \in CallsOf("create_namespaced_deployment", WorkloadName(1)) :
          calls[k].status = OtherError
    /\ services[EndpointName(0)] = start_services[EndpointName(0)]

-----------------------------------------------------------------------------
(* C7 *)

PoolFailureMsgs == { "configmap_not_found", "configmap_fetch_error",
                     "configmap_no_data", "no_vpn_configurations",
                     "too_few_vpns" }

\* C7 as stated: a non-zero exit status only follows a failed pool
\* resolution or a missing workload template.
C7_OnlyPoolOrTemplate ==
    (pc \in { "exit", "done" } /\ exit_code # 0) =>
        LastMsg \in PoolFailureMsgs \cup { "no_deployment_definition" }

\* C7 as amended: a non-zero exit status only follows a Kubernetes
\* configuration that could not be loaded, a template file that could not be
\* read, a missing workload template or a failed pool resolution; it is
\* decided before the first instance is materialized, and a run that entered
\* the loop ends with status 0 whatever the outcomes of its instances.
C7_ExitCauses ==
    /\ pc = "exit" =>
          /\ exit_code = 1
          /\ LastMsg \in PoolFailureMsgs \cup { "no_deployment_definition",
                                                "no_kubernetes_configuration",
                                                "traceback" }
          /\ assigned = <<>>
          /\ WriteCalls = <<>>
    /\ LoopStarted => exit_code = IF pc = "done" THEN 0 ELSE Running
    /\ pc \notin { "exit", "done" } => exit_code = Running

C7_Witness ==
    /\ pc = "done"
    /\ exit_code = 0
    /\ num_deployments = 2
    /\ HasService
    /\ \A j \in Range(num_deployments) :
          /\ WorkloadOutcomes(WorkloadName(j)) = { "failed" }
          /\ EndpointOutcomes(EndpointName(j)) \subseteq { "failed", "skipped" }
    /\ \E k \in DOMAIN calls :
          calls[k].op = "replace_namespaced_deployment"

-----------------------------------------------------------------------------
(* C8 *)

\* the place of a call within its instance
OpRank(op) ==
    IF op = "create_namespaced_deployment" THEN 1
    ELSE IF op = "replace_namespaced_deployment" THEN 2
    ELSE 3

\* every call instance j makes has been made
InstanceComplete(j) ==
    /\ \E k \in CallsOf("create_namespaced_deployment", WorkloadName(j)) :
          calls[k].status = Conflict =>
             CallsOf("replace_namespaced_deployment", WorkloadName(j)) # {}
    /\ HasService => CallsOf("create_namespaced_service", EndpointName(j)) # {}

\* C8: instances are processed one at a time in ascending index order: the
\* calls are ordered by index and, within one index, workload create, workload
\* replace, endpoint create; instance i is materialized only when every call
\* of every instance below i has returned, and no call is made for an
\* instance that has not been materialized.
C8_Sequential ==
    LoopStarted =>
        /\ i \in 0 .. Max(num_deployments, 0)
        /\ Len(assigned) = IF pc \in { "loop", "done" } THEN i ELSE i + 1
        /\ pc \in { "create_deployment", "replace_deployment", "service" } =>
              current_deployment.metadata.name = WorkloadName(i)
        /\ \A j \in Range(num_deployments) : j < i => InstanceComplete(j)
        /\ LET W == WriteCalls
               workload == [j \in Range(num_deployments) |-> WorkloadName(j)]
               endpoint == [j \in Range(num_deployments) |->
                              IF HasService THEN EndpointName(j) ELSE <<>>]
               \* the instances a call is a call of
               Index(c) ==
                  { j \in Range(num_deployments) :
                       IF c.op = "create_namespaced_service"
                       THEN HasService /\ c.name = endpoint[j]
                       ELSE c.name = workload[j] }
           IN  /\ \A k \in DOMAIN W :
                     \E j \in Index(W[k]) :
                        /\ j <= i
                        /\ pc \in { "loop", "create_deployment", "done" } => j < i
               /\ \A k \in 1 .. (Len(W) - 1) :
                     \A ja \in Index(W[k]), jb \in Index(W[k + 1]) :
                        \/ ja < jb
                        \/ ja = jb /\ OpRank(W[k].op) < OpRank(W[k + 1].op)

C8_Witness ==
    /\ pc = "create_deployment"
    /\ i = 1
    /\ Len(WriteCalls) = 3
    /\ WriteCalls[2].op = "replace_namespaced_deployment"
    /\ WriteCalls[3].op = "create_namespaced_service"

-----------------------------------------------------------------------------
(* C9 *)

\* the template file has been loaded
TemplateLoaded ==
    pc \notin { "load_kube_config", "load_incluster_config", "load_template" }

\* C9: a missing workload template, an identity source that does not exist
\* and an identity source without a key ending in .ovpn each end the run
\* with a non-zero status before any createWorkload, replaceWorkload or
\* createEndpoint call, and a missing workload template ends it before the
\* identity source is read.
C9_SetupFailFast ==
    /\ (TemplateLoaded /\ template_file.readable
          /\ \A k \in DOMAIN template_file.docs :
                template_file.docs[k].kind # "Deployment") =>
          /\ pc = "exit"
          /\ exit_code = 1
          /\ calls = <<>>
    /\ (PoolQueried /\ config_map.status = NotFound) =>
          /\ pc = "exit"
          /\ exit_code = 1
          /\ WriteCalls = <<>>
    /\ (PoolQueried /\ config_map.status = 200 /\ config_map.has_data
          /\ \A k \in DOMAIN config_map.keys :
                ~EndsWith(config_map.keys[k], DotOvpn)) =>
          /\ pc \in { "check_vpns", "exit" }
          /\ pc = "exit" => exit_code = 1
          /\ WriteCalls = <<>>

C9_Witness ==
    /\ pc = "exit"
    /\ PoolQueried
    /\ config_map.status = 200
    /\ config_map.has_data
    /\ config_map.keys = << KeyC >>
    /\ num_deployments = 1
    /\ LastMsg = "no_vpn_configurations"
    /\ calls = << [op |-> "read_namespaced_config_map", name |-> <<>>,
                   status |-> 200] >>

-----------------------------------------------------------------------------
(* C10 *)

OutcomeCategories == { "created", "replaced", "skipped", "failed" }

\* the number of objects reported with an outcome category
CountOutcome(category) ==
    Cardinality({ k \in DOMAIN out :
                    \/ out[k].msg \in WorkloadMsgs
                         /\ WorkloadOutcome(out[k].msg) = category
                    \/ out[k].msg \in EndpointMsgs
                         /\ EndpointOutcome(out[k].msg) = category })

-----------------------------------------------------------------------------
(* C11 *)

\* the containers of the Deployment template as the file holds them
FileContainers ==
    FirstOfKind(template_file.docs, "Deployment").spec.template.spec.containers

\* the variables lines 114-116 inject
InjectedNames == { "BOX_NAME", "STREAM_URL", "VPN_CONFIG" }

\* the positions of the entries of env named n
EnvNamed(env, n) == { k \in DOMAIN env : env[k].name = n }

\* the entry that gives n its value: the last one of env named n
LastNamed(env, n) ==
    env[CHOOSE k \in EnvNamed(env, n) : \A j \in EnvNamed(env, n) : j <= k]

\* C11: injection into the viewer-box container is a merge by name: after
\* materialization its list holds BOX_NAME ("box-" and the index), STREAM_URL
\* (the run's target) and VPN_CONFIG (the instance's token) once each,
\* whatever the template declared under those names, every other name the
\* template declared keeps its entry and value, and no further name appears.
C11_EnvMerged ==
    (current_deployment # None /\ ViewerBoxIndex(FileContainers) # 0) =>
        LET b == ViewerBoxIndex(FileContainers)
            old == IF "env" \in DOMAIN FileContainers[b]
                   THEN FileContainers[b].env ELSE <<>>
            box == current_deployment.spec.template.spec.containers[b]
        IN  /\ "env" \in DOMAIN box
            /\ \A n \in InjectedNames : Cardinality(EnvNamed(box.env, n)) = 1
            /\ LastNamed(box.env, "BOX_NAME").value
                   = Box \o <<"-">> \o Str(CurrentIndex)
            /\ LastNamed(box.env, "STREAM_URL").value = stream_url
            /\ LastNamed(box.env, "VPN_CONFIG").value
                   = available_vpns[CurrentIndex + 1]
            /\ \A k \in DOMAIN old :
                  old[k].name \notin InjectedNames =>
                     /\ EnvNamed(box.env, old[k].name) # {}
                     /\ LastNamed(box.env, old[k].name)
                           = LastNamed(old, old[k].name)
            /\ \A k \in DOMAIN box.env :
                  \/ box.env[k].name \in InjectedNames
                  \/ EnvNamed(old, box.env[k].name) # {}

\* the second instance of a template that declares TZ and VPN_CONFIG: TZ is
\* kept, VPN_CONFIG is overwritten in place, the other two are appended
C11_Witness ==
    /\ pc = "create_deployment"
    /\ i = 1
    /\ FirstOfKind(template_file.docs, "Deployment") = DeploymentA
    /\ current_deployment.spec.template.spec.containers[2].env
          = << [name |-> "TZ", value |-> <<"U","T","C">>],
               [name |-> "VPN_CONFIG", value |-> <<"a">>],
               [name |-> "BOX_NAME", value |-> <<"b","o","x","-","1">>],
               [name |-> "STREAM_URL", value |-> <<"k","/","s">>] >>

-----------------------------------------------------------------------------
(* C12 *)

\* the names the calls of op were made for, in call order
NamesOf(op) ==
    LET made == SelectSeq(calls, LAMBDA c : c.op = op)
    IN  [k \in DOMAIN made |-> made[k].name]

\* C12: the k-th Deployment the run creates is named base name, "-", k and
\* the k-th Service likewise, so the Deployment names are pairwise distinct
\* and so are the Service names; the instance named for index k is the one
\* that is given the k-th token of the pool.
C12_NamesPaired ==
    /\ \A a \in DOMAIN NamesOf("create_namespaced_deployment") :
          /\ NamesOf("create_namespaced_deployment")[a] = WorkloadName(a - 1)
          /\ \A b \in DOMAIN NamesOf("create_namespaced_deployment") :
                a # b => NamesOf("create_namespaced_deployment")[a]
                            # NamesOf("create_namespaced_deployment")[b]
    /\ \A a \in DOMAIN NamesOf("create_namespaced_service") :
          /\ NamesOf("create_namespaced_service")[a] = EndpointName(a - 1)
          /\ \A b \in DOMAIN NamesOf("create_namespaced_service") :
                a # b => NamesOf("create_namespaced_service")[a]
                            # NamesOf("create_namespaced_service")[b]
    /\ current_deployment # None =>
          /\ current_deployment.metadata.name = WorkloadName(CurrentIndex)
          /\ vpn_config_name = available_vpns[CurrentIndex + 1]
          /\ assigned[CurrentIndex + 1] = available_vpns[CurrentIndex + 1]
    /\ current_service # None =>
          current_service.metadata.name
             \in { EndpointName(j) : j \in Range(CurrentIndex + 1) }

\* two instances of the template named "viewer" on the pool [b, a]
C12_Witness ==
    /\ pc = "done"
    /\ num_deployments = 2
    /\ NamesOf("create_namespaced_deployment")
          = << Viewer \o <<"-","0">>, Viewer \o <<"-","1">> >>
    /\ NamesOf("create_namespaced_service")
          = << ViewerSvc \o <<"-","0">>, ViewerSvc \o <<"-","1">> >>
    /\ assigned = << <<"b">>, <<"a">> >>
    /\ current_deployment.metadata.name = Viewer \o <<"-","1">>
    /\ vpn_config_name = <<"a">>

-----------------------------------------------------------------------------
(* C13 *)

-----------------------------------------------------------------------------
(* C14 *)

\* the warnings printed for the Deployment called name
WarningLines(name) ==
    { k \in DOMAIN out : out[k].msg = "container_not_found" /\ out[k].name = name }

\* C14: when the Deployment template has no container named viewer-box,
\* materialization still succeeds: the containers of every instance are the
\* template's, without injected variables, one warning is printed for the
\* instance, its Deployment is still submitted (and its Service, when there
\* is a Service template), and the loop goes on to the last index.
C14_MissingContainerWarned ==
    (LoopStarted /\ ViewerBoxIndex(FileContainers) = 0) =>
        /\ current_deployment # None =>
              /\ current_deployment.spec.template.spec.containers = FileContainers
              /\ Cardinality(WarningLines(WorkloadName(CurrentIndex))) = 1
        /\ \A j \in Range(i) :
              /\ Cardinality(WarningLines(WorkloadName(j))) = 1
              /\ CallsOf("create_namespaced_deployment", WorkloadName(j)) # {}
              /\ HasService =>
                    CallsOf("create_namespaced_service", EndpointName(j)) # {}
        /\ pc = "done" => i = Max(num_deployments, 0)

\* two instances of a template whose only container is the sidecar
C14_Witness ==
    /\ pc = "done"
    /\ num_deployments = 2
    /\ FirstOfKind(template_file.docs, "Deployment") = DeploymentC
    /\ WarningLines(Viewer \o <<"-","0">>) # {}
    /\ WarningLines(Viewer \o <<"-","1">>) # {}
    /\ Len(calls) = 5
    /\ \A k \in 2..5 : calls[k].status = Created
    /\ (Viewer \o <<"-","1">>) \in DOMAIN deployments
    /\ deployments[Viewer \o <<"-","1">>].spec.template.spec.containers
          = << [name |-> "vpn"] >>

-----------------------------------------------------------------------------
(* C15 *)

\* the keys of the ConfigMap that end with ".ovpn", in the ConfigMap's order
QualifyingKeys == SelectSeq(config_map.keys, LAMBDA key : EndsWith(key, DotOvpn))

\* key without its last Len(".ovpn") characters
WithoutTrailingSuffix(key) == SubSeq(key, 1, Len(key) - Len(DotOvpn))

\* C15: pool resolution keeps exactly the keys that end with ".ovpn", in the
\* ConfigMap's order, and maps each to the key with that trailing suffix
\* stripped; so there are as many tokens as qualifying keys and distinct
\* qualifying keys give distinct tokens.
C15_SuffixStripped ==
    PoolResolved =>
        /\ Len(available_vpns) = Len(QualifyingKeys)
        /\ \A k \in DOMAIN QualifyingKeys :
              available_vpns[k] = WithoutTrailingSuffix(QualifyingKeys[k])
        /\ \A a, b \in DOMAIN QualifyingKeys :
              QualifyingKeys[a] # QualifyingKeys[b] =>
                 available_vpns[a] # available_vpns[b]

-----------------------------------------------------------------------------
(* C16 *)

\* the create_namespaced_service calls made so far
ServiceCalls == SelectSeq(calls, LAMBDA c : c.op = "create_namespaced_service")

\* C16: when the template file holds no Service, no create_namespaced_service
\* call is made for any index while the Deployment of every index is still
\* reconciled; when it holds one, exactly one create_namespaced_service call
\* is made for each index.
C16_ServiceOptional ==
    LoopStarted =>
        /\ ~HasService => ServiceCalls = <<>>
        /\ \A j \in Range(i) :
              /\ Cardinality(CallsOf("create_namespaced_deployment",
                                     WorkloadName(j))) = 1
              /\ WorkloadOutcomes(WorkloadName(j)) # {}
              /\ HasService =>
                    Cardinality(CallsOf("create_namespaced_service",
                                        EndpointName(j))) = 1
        /\ HasService => Len(ServiceCalls) = i
        /\ pc = "done" => i = Max(num_deployments, 0)

\* two instances of a file without a Service, both Deployments reconciled
C16_Witness ==
    /\ pc = "done"
    /\ num_deployments = 2
    /\ ~HasService
    /\ Len(calls) = 3
    /\ calls[2].name = DefaultDeploymentName \o <<"-","0">>
    /\ calls[3].name = DefaultDeploymentName \o <<"-","1">>
    /\ \A k \in 2..3 : calls[k].status = Created

-----------------------------------------------------------------------------
(* C17 *)

\* what the calls made so far show for index j: at most one create of its
\* Deployment, at most one replace, and a replace only as the call that
\* follows the conflict of that create
OneReconcile(j) ==
    LET created == CallsOf("create_namespaced_deployment", WorkloadName(j))
        replaced == CallsOf("replace_namespaced_deployment", WorkloadName(j))
    IN  /\ Cardinality(created) <= 1
        /\ Cardinality(replaced) <= 1
        /\ \A k \in replaced :
              /\ k - 1 \in created
              /\ calls[k - 1].status = Conflict
        /\ (j < i \/ (j = i /\ pc \in { "replace_deployment", "service" })) =>
              Cardinality(created) = 1

\* the write calls of a run stay within the budget of three per index, and a
\* run that reaches its end has gone through exactly N iterations
CallBudget ==
    /\ \A j \in Range(num_deployments) : OneReconcile(j)
    /\ Len(NamesOf("create_namespaced_deployment"))
          = (IF pc \in { "replace_deployment", "service" } THEN i + 1 ELSE i)
    /\ Len(NamesOf("replace_namespaced_deployment"))
          <= Len(NamesOf("create_namespaced_deployment"))
    /\ Len(WriteCalls) <= 3 * Max(num_deployments, 0)
    /\ pc = "done" =>
          /\ i = Max(num_deployments, 0)
          /\ Len(assigned) = Max(num_deployments, 0)

\* C17: create_namespaced_deployment is called exactly once per index,
\* replace_namespaced_deployment at most once per index and only right after
\* that index's create was answered with a conflict, so a run makes at most
\* 3N write calls; and whatever the cluster answers, a run that has entered
\* the loop reaches its end, after exactly N iterations.
C17_BoundedAndTerminates ==
    /\ []CallBudget
    /\ LoopStarted ~> (pc = "done")

\* both instances met a conflict and were replaced: six write calls for N = 2
C17_Witness ==
    /\ pc = "done"
    /\ num_deployments = 2
    /\ Len(WriteCalls) = 6
    /\ Len(NamesOf("replace_namespaced_deployment")) = 2

-----------------------------------------------------------------------------
(* C18 *)

\* the Deployment step of index j ended in an error: its create or its
\* replace was refused
WorkloadFailed(j) == WorkloadOutcomes(WorkloadName(j)) = { "failed" }

\* C18: the Service step does not depend on the Deployment step: for every
\* finished index whose Deployment create or replace failed, the Service
\* create was still called, after the failure, and a Service it created is in
\* the cluster whether or not the Deployment is.
C18_EndpointRegardless ==
    (LoopStarted /\ HasService) =>
        \A j \in Range(i) :
           WorkloadFailed(j) =>
              /\ Cardinality(CallsOf("create_namespaced_service",
                                     EndpointName(j))) = 1
              /\ \A k \in CallsOf("create_namespaced_service", EndpointName(j)) :
                    /\ k > 1
                    /\ calls[k - 1].name = WorkloadName(j)
                    /\ calls[k - 1].status \notin { Created, Replaced }
                    /\ calls[k].status = Created =>
                          EndpointName(j) \in DOMAIN services

\* after the run the cluster holds the Service of index 0, created by this
\* run, and no Deployment of index 0: its create was refused
C18_Witness ==
    /\ pc = "done"
    /\ HasService
    /\ num_deployments >= 1
    /\ WorkloadFailed(0)
    /\ WorkloadName(0) \notin DOMAIN deployments
    /\ EndpointName(0) \in DOMAIN services
    /\ EndpointName(0) \notin DOMAIN start_services

-----------------------------------------------------------------------------
(* C19 *)

\* the names a run with this instance count may write
WorkloadNames == { WorkloadName(j) : j \in Range(num_deployments) }
EndpointNames ==
    IF HasService THEN { EndpointName(j) : j \in Range(num_deployments) } ELSE {}

\* C19: a run with instance count N writes only objects named base name,
\* "-", i with i in [0, N) and deletes nothing: every write call is a create
\* or a replace for such a name, every object the cluster held before the run
\* is still there, and every object under another name, those of indices
\* N and above left by an earlier run included, is what it was.
C19_Frame ==
    /\ \A k \in DOMAIN calls :
          \/ calls[k].op = "read_namespaced_config_map"
          \/ /\ calls[k].op \in { "create_namespaced_deployment",
                                  "replace_namespaced_deployment" }
             /\ calls[k].name \in WorkloadNames
          \/ /\ calls[k].op = "create_namespaced_service"
             /\ calls[k].name \in EndpointNames
    /\ DOMAIN start_deployments \subseteq DOMAIN deployments
    /\ DOMAIN start_services \subseteq DOMAIN services
    /\ \A n \in DOMAIN deployments :
          n \notin WorkloadNames =>
             /\ n \in DOMAIN start_deployments
             /\ deployments[n] = start_deployments[n]
    /\ \A n \in DOMAIN services :
          n \notin EndpointNames =>
             /\ n \in DOMAIN start_services
             /\ services[n] = start_services[n]

\* a run with N = 1 on a cluster that holds the objects of indices 0 and 1:
\* the Deployment of index 0 is replaced, the objects of index 1 are untouched
C19_Witness ==
    /\ pc = "done"
    /\ num_deployments = 1
    /\ HasService
    /\ { WorkloadName(0), WorkloadName(1) } \subseteq DOMAIN start_deployments
    /\ EndpointName(1) \in DOMAIN start_services
    /\ deployments[WorkloadName(0)] # start_deployments[WorkloadName(0)]
    /\ deployments[WorkloadName(1)] = start_deployments[WorkloadName(1)]
    /\ services[EndpointName(1)] = start_services[EndpointName(1)]

-----------------------------------------------------------------------------
(* C20 *)

\* C20: with a pool that is not empty and an instance count of zero or less
\* the run passes the checks of lines 70-76, makes no
\* create_namespaced_deployment, replace_namespaced_deployment or
\* create_namespaced_service call and ends with exit status 0.
C20_NonPositiveCount ==
    (PoolResolved /\ available_vpns # <<>> /\ num_deployments <= 0) =>
        /\ pc \in { "check_vpns", "loop", "done" }
        /\ exit_code \in { Running, 0 }
        /\ WriteCalls = <<>>
        /\ i = 0
        /\ pc = "done" => (exit_code = 0 /\ LastMsg = "processed")

\* a finished run with a negative instance count on a pool of two tokens
C20_Witness ==
    /\ pc = "done"
    /\ num_deployments < 0
    /\ Len(available_vpns) = 2
    /\ exit_code = 0
    /\ WriteCalls = <<>>
    /\ out = << ProcessedLine(num_deployments) >>

====
